---------------------------- MODULE Spec2Model ----------------------------
(***************************************************************************)
(* Model of the conversion, parsing and unique-path helpers of the audio   *)
(* library application (src/src/utils.py, src/src/file_utils.py).          *)
(*                                                                         *)
(* Python strings are sequences of one-character strings.  Each helper is  *)
(* an operator computed the way the code computes it; a call that raises   *)
(* is the record [ok |-> FALSE, ...].                                      *)
(***************************************************************************)
EXTENDS Integers, Sequences, FiniteSets

VARIABLES
    tpc,              \* duration helpers: "int", "fmt", "roundtrip", "str", "parsed", "idle"
    seconds,          \* argument of seconds_to_formatted_time
    formatted_time,   \* argument of formatted_time_to_seconds
    total_seconds,    \* outcome of formatted_time_to_seconds
    zpc,              \* size helpers: "int", "fmt", "roundtrip", "str", "parsed", "idle"
    file_size_bytes,  \* argument of bytes_to_formatted_size (base-1024 limbs)
    formatted_size,   \* argument of formatted_size_to_bytes
    bytes_size,       \* outcome of formatted_size_to_bytes
    gpc,              \* song parser: "text", "parsed", "idle"
    text,             \* argument of parse_text_block_into_song
    song,             \* outcome of parse_text_block_into_song
    fs,               \* the paths that exist on the filesystem
    pc,               \* per exporter: "idle", "call", "loop", "return", "done"
    file_path,        \* per exporter: argument of get_unique_file_name
    base_name,        \* per exporter: os.path.splitext(file_path)[0]
    extension,        \* per exporter: os.path.splitext(file_path)[1]
    unique_path,      \* per exporter: the path under test, then the result
    counter,          \* per exporter: the next suffix
    now,              \* count of returns and file creations so far
    returnedAt,       \* per exporter: when get_unique_file_name returned (0: not yet)
    exportedAt        \* per exporter: when its file was created (0: not yet)

timeVars == <<tpc, seconds, formatted_time, total_seconds>>
sizeVars == <<zpc, file_size_bytes, formatted_size, bytes_size>>
songVars == <<gpc, text, song>>
pathVars == <<fs, pc, file_path, base_name, extension, unique_path, counter,
              now, returnedAt, exportedAt>>
vars == <<timeVars, sizeVars, songVars, pathVars>>

---------------------------------------------------------------------------
(* Python str primitives *)

DigitChars == <<"0", "1", "2", "3", "4", "5", "6", "7", "8", "9">>

IsDigit(c) == \E i \in 1..10 : DigitChars[i] = c

DigitOf(c) == (CHOOSE i \in 1..10 : DigitChars[i] = c) - 1

Whitespace == {" ", "\n", "\t"}

\* str(n) / the digits an f-string prints for a non-negative int
RECURSIVE IntToStr(_)
IntToStr(n) ==
    IF n < 10 THEN <<DigitChars[n + 1]>>
    ELSE IntToStr(n \div 10) \o <<DigitChars[(n % 10) + 1]>>

\* the format spec "02": zero padded to a width of at least two
PadZero2(n) ==
    LET d == IntToStr(n)
    IN  IF Len(d) < 2 THEN <<"0">> \o d ELSE d

\* s starts with sep at position i
MatchAt(s, sep, i) ==
    /\ i + Len(sep) - 1 <= Len(s)
    /\ \A j \in 1..Len(sep) : s[i + j - 1] = sep[j]

Contains(s, sep) == \E i \in 1..Len(s) : MatchAt(s, sep, i)

\* position of the first occurrence of sep in s (only where Contains(s, sep))
FirstIndex(s, sep) ==
    CHOOSE i \in 1..Len(s) :
        /\ MatchAt(s, sep, i)
        /\ \A j \in 1..(i - 1) : ~MatchAt(s, sep, j)

\* str.split(sep): cut at every occurrence of sep, scanning left to right
RECURSIVE PySplit(_, _)
PySplit(s, sep) ==
    IF ~Contains(s, sep) THEN <<s>>
    ELSE LET i == FirstIndex(s, sep)
         IN  <<SubSeq(s, 1, i - 1)>>
                 \o PySplit(SubSeq(s, i + Len(sep), Len(s)), sep)

\* str.strip(): drop leading and trailing whitespace
RECURSIVE LStrip(_)
LStrip(s) ==
    IF s # <<>> /\ s[1] \in Whitespace THEN LStrip(Tail(s)) ELSE s

RECURSIVE RStrip(_)
RStrip(s) ==
    IF s # <<>> /\ s[Len(s)] \in Whitespace
    THEN RStrip(SubSeq(s, 1, Len(s) - 1)) ELSE s

PyStrip(s) == RStrip(LStrip(s))

\* "".join(parts)
RECURSIVE Concat(_)
Concat(parts) ==
    IF parts = <<>> THEN <<>> ELSE parts[1] \o Concat(Tail(parts))

\* sep.join(parts)
RECURSIVE Join(_, _)
Join(parts, sep) ==
    IF parts = <<>> THEN <<>>
    ELSE IF Len(parts) = 1 THEN parts[1]
    ELSE parts[1] \o sep \o Join(Tail(parts), sep)

\* value of a run of decimal digits, underscores skipped
RECURSIVE DigitsValue(_)
DigitsValue(s) ==
    IF s = <<>> THEN 0
    ELSE LET c == s[Len(s)]
             rest == SubSeq(s, 1, Len(s) - 1)
         IN  IF c = "_" THEN DigitsValue(rest)
             ELSE DigitsValue(rest) * 10 + DigitOf(c)

\* what int() accepts after the sign: digits, single underscores only between digits
IntBodyOk(b) ==
    /\ b # <<>>
    /\ \A i \in 1..Len(b) : IsDigit(b[i]) \/ b[i] = "_"
    /\ IsDigit(b[1]) /\ IsDigit(b[Len(b)])
    /\ \A i \in 1..(Len(b) - 1) : ~(b[i] = "_" /\ b[i + 1] = "_")

\* int(s) for a str: surrounding whitespace dropped, optional sign, base 10;
\* ValueError is [ok |-> FALSE]
PyInt(s) ==
    LET t == PyStrip(s)
        signed == t # <<>> /\ t[1] \in {"+", "-"}
        body == IF signed THEN Tail(t) ELSE t
    IN  IF ~IntBodyOk(body) THEN [ok |-> FALSE, val |-> 0]
        ELSE [ok |-> TRUE,
              val |-> IF signed /\ t[1] = "-" THEN 0 - DigitsValue(body)
                      ELSE DigitsValue(body)]

---------------------------------------------------------------------------
(* Python int and float values of the size helpers                           *)
(*                                                                           *)
(* A byte count can reach 1024^4 and beyond, past the integers TLC computes  *)
(* with, so a non-negative Python int is held as its base-1024 limbs, least  *)
(* significant first, without high zero limbs (0 is << >>).  A float that    *)
(* the code obtains as bytes / 1024^k is the pair of the limbs and k: for    *)
(* byte counts below 2^53 that division is exact in a double.  A float read  *)
(* from a decimal numeral is rounded to the 53 significant bits of a double. *)

Base == 1024

RECURSIVE BigNorm(_)
BigNorm(a) ==
    IF a # <<>> /\ a[Len(a)] = 0 THEN BigNorm(SubSeq(a, 1, Len(a) - 1)) ELSE a

RECURSIVE BigFromInt(_)
BigFromInt(n) ==
    IF n = 0 THEN <<>> ELSE <<n % Base>> \o BigFromInt(n \div Base)

\* a * c + carry, for small c and carry
RECURSIVE BigMulAdd(_, _, _)
BigMulAdd(a, c, carry) ==
    IF a = <<>> THEN BigFromInt(carry)
    ELSE LET t == a[1] * c + carry
         IN  BigNorm(<<t % Base>> \o BigMulAdd(Tail(a), c, t \div Base))

BigMulSmall(a, c) == BigMulAdd(a, c, 0)

\* quotient and remainder of a by a small d
RECURSIVE BigDivRem(_, _)
BigDivRem(a, d) ==
    IF a = <<>> THEN [q |-> <<>>, r |-> 0]
    ELSE LET hi == BigDivRem(Tail(a), d)
             cur == hi.r * Base + a[1]
         IN  [q |-> BigNorm(<<cur \div d>> \o hi.q), r |-> cur % d]

\* -1, 0, 1 as a < b, a = b, a > b
RECURSIVE BigCmp(_, _)
BigCmp(a, b) ==
    IF Len(a) # Len(b) THEN (IF Len(a) < Len(b) THEN -1 ELSE 1)
    ELSE IF a = <<>> THEN 0
    ELSE IF a[Len(a)] # b[Len(b)] THEN (IF a[Len(a)] < b[Len(b)] THEN -1 ELSE 1)
    ELSE BigCmp(BigNorm(SubSeq(a, 1, Len(a) - 1)), BigNorm(SubSeq(b, 1, Len(b) - 1)))

RECURSIVE BigAddCarry(_, _, _)
BigAddCarry(a, b, carry) ==
    IF a = <<>> /\ b = <<>> THEN BigFromInt(carry)
    ELSE LET x == IF a = <<>> THEN 0 ELSE a[1]
             y == IF b = <<>> THEN 0 ELSE b[1]
             t == x + y + carry
         IN  <<t % Base>> \o BigAddCarry(IF a = <<>> THEN a ELSE Tail(a),
                                         IF b = <<>> THEN b ELSE Tail(b),
                                         t \div Base)

BigAdd(a, b) == BigNorm(BigAddCarry(a, b, 0))

\* a * 1024^k
BigShiftLeft(a, k) == IF a = <<>> THEN a ELSE [i \in 1..k |-> 0] \o a

\* a div 1024^k and a mod 1024^k
BigShiftRight(a, k) == SubSeq(a, k + 1, Len(a))

BigLow(a, k) == BigNorm(SubSeq(a, 1, IF k < Len(a) THEN k ELSE Len(a)))

\* str(n) for a non-negative int
RECURSIVE BigToStr(_)
BigToStr(a) ==
    LET qr == BigDivRem(a, 10)
    IN  IF qr.q = <<>> THEN <<DigitChars[qr.r + 1]>>
        ELSE BigToStr(qr.q) \o <<DigitChars[qr.r + 1]>>

\* the int a run of decimal digits denotes
RECURSIVE BigFromDigits(_)
BigFromDigits(s) ==
    IF s = <<>> THEN <<>>
    ELSE BigMulAdd(BigFromDigits(SubSeq(s, 1, Len(s) - 1)), 10, DigitOf(s[Len(s)]))

MantissaBits == 53

\* a * 2^k and a div 2^k
BigMulPow2(a, k) == BigShiftLeft(BigMulSmall(a, 2 ^ (k % 10)), k \div 10)

BigDivPow2(a, k) == BigDivRem(BigShiftRight(a, k \div 10), 2 ^ (k % 10)).q

\* a / d rounded to the nearest integer, ties to the even one
BigRoundDiv(a, d) ==
    LET qr == BigDivRem(a, d)
        odd == qr.q # <<>> /\ qr.q[1] % 2 = 1
    IN  IF 2 * qr.r > d \/ (2 * qr.r = d /\ odd) THEN BigAdd(qr.q, <<1>>) ELSE qr.q

\* int(x) for the double x nearest to n / d > 0: with k the shift that brings
\* n / d into [2^52, 2^53), the double is round(n * 2^k / d) / 2^k, and int()
\* drops its fraction (k < 0, for n / d from 2^53 up to 2^63, divides instead)
TruncDouble(n, d) ==
    IF n = <<>> THEN <<>>
    ELSE LET Scaled(j) == IF j >= 0 THEN BigMulPow2(n, j) ELSE n
             Divisor(j) == IF j >= 0 THEN d ELSE d * 2 ^ (0 - j)
             k == CHOOSE j \in (0 - 10)..(2 * MantissaBits) :
                      /\ BigCmp(Scaled(j), BigMulPow2(BigFromInt(Divisor(j)),
                                                      MantissaBits - 1)) >= 0
                      /\ BigCmp(Scaled(j), BigMulPow2(BigFromInt(Divisor(j)),
                                                      MantissaBits)) < 0
             mantissa == BigRoundDiv(Scaled(k), Divisor(k))
         IN  IF k >= 0 THEN BigDivPow2(mantissa, k) ELSE BigMulPow2(mantissa, 0 - k)

---------------------------------------------------------------------------
(* utils.py: durations *)

SecondsPerHour == 3600
SecondsPerMinute == 60

Colon == <<":">>

\* a slip that forgets to reduce the minutes modulo the hour
seconds_to_formatted_time_minutes_unreduced(s) ==
    PadZero2(s \div SecondsPerHour) \o Colon
        \o PadZero2(s \div SecondsPerMinute) \o Colon
        \o PadZero2(s % SecondsPerMinute)

seconds_to_formatted_time(s) ==
    LET hours == s \div SecondsPerHour
        minutes == (s % SecondsPerHour) \div SecondsPerMinute
        secs == s % SecondsPerMinute
    IN  PadZero2(hours) \o Colon \o PadZero2(minutes) \o Colon \o PadZero2(secs)

\* a slip that reads the first three fields and ignores any others
formatted_time_to_seconds_first_three(s) ==
    LET parts == PySplit(s, Colon)
        f(i) == PyInt(parts[i])
    IN  IF Len(parts) < 3 \/ \E i \in 1..3 : ~f(i).ok
        THEN [ok |-> FALSE, val |-> 0]
        ELSE [ok |-> TRUE,
              val |-> f(1).val * SecondsPerHour + f(2).val * SecondsPerMinute
                          + f(3).val]

\* hours, minutes, seconds = map(int, formatted_time.split(":")): ValueError
\* when the fields are not exactly three or int() rejects one of them
formatted_time_to_seconds(s) ==
    LET parts == PySplit(s, Colon)
        f(i) == PyInt(parts[i])
    IN  IF Len(parts) # 3 \/ \E i \in 1..Len(parts) : ~f(i).ok
        THEN [ok |-> FALSE, val |-> 0]
        ELSE [ok |-> TRUE,
              val |-> f(1).val * SecondsPerHour + f(2).val * SecondsPerMinute
                          + f(3).val]

---------------------------------------------------------------------------
(* utils.py: file sizes *)

Units == << <<"B">>, <<"K", "B">>, <<"M", "B">>, <<"G", "B">>, <<"T", "B">> >>

HundredthsPerUnit == 100

\* a slip that tests > 1024 instead of >= 1024
RECURSIVE ScaleLoop_strict(_, _)
ScaleLoop_strict(b, unit_index) ==
    IF /\ BigCmp(BigShiftRight(b, unit_index), BigFromInt(Base)) > 0
       /\ unit_index < Len(Units) - 1
    THEN ScaleLoop_strict(b, unit_index + 1)
    ELSE unit_index

\* while file_size_bytes >= 1024 and unit_index < len(units) - 1:
\*     file_size_bytes /= 1024; unit_index += 1
\* with file_size_bytes = b / 1024^unit_index; the result is the final unit_index
RECURSIVE ScaleLoop(_, _)
ScaleLoop(b, unit_index) ==
    IF /\ BigCmp(BigShiftRight(b, unit_index), BigFromInt(Base)) >= 0
       /\ unit_index < Len(Units) - 1
    THEN ScaleLoop(b, unit_index + 1)
    ELSE unit_index

\* round(b * scale / 1024^k), ties to the even neighbour: the digits that
\* the format spec ".2f" prints for the double b / 1024^k (scale = 100)
RoundScaled(b, k, scale) ==
    LET n == BigMulSmall(b, scale)
        q == BigShiftRight(n, k)
        twice == BigMulSmall(BigLow(n, k), 2)
        half == BigCmp(twice, BigShiftLeft(<<1>>, k))
        odd == q # <<>> /\ q[1] % 2 = 1
    IN  IF half > 0 \/ (half = 0 /\ odd) THEN BigAdd(q, <<1>>) ELSE q

\* f"{value:.2f}" for value = b / 1024^k
FormatFixed2(b, k) ==
    LET h == BigDivRem(RoundScaled(b, k, HundredthsPerUnit), HundredthsPerUnit)
    IN  BigToStr(h.q) \o <<".">> \o PadZero2(h.r)

\* a slip that prints one decimal
bytes_to_formatted_size_one_decimal(b) ==
    LET unit_index == ScaleLoop(b, 0)
        h == BigDivRem(RoundScaled(b, unit_index, 10), 10)
    IN  BigToStr(h.q) \o <<".">> \o IntToStr(h.r) \o <<" ">> \o Units[unit_index + 1]

bytes_to_formatted_size(b) ==
    LET unit_index == ScaleLoop(b, 0)
    IN  FormatFixed2(b, unit_index) \o <<" ">> \o Units[unit_index + 1]

\* str.split(): cut at runs of whitespace, no empty pieces
RECURSIVE PySplitWhitespace(_)
PySplitWhitespace(s) ==
    LET t == LStrip(s)
    IN  IF t = <<>> THEN <<>>
        ELSE IF \E i \in 1..Len(t) : t[i] \in Whitespace
        THEN LET i == CHOOSE j \in 1..Len(t) :
                          /\ t[j] \in Whitespace
                          /\ \A m \in 1..(j - 1) : t[m] \notin Whitespace
             IN  <<SubSeq(t, 1, i - 1)>> \o PySplitWhitespace(SubSeq(t, i, Len(t)))
        ELSE <<t>>

\* float(s) for an unsigned decimal numeral, digits with at most one ".":
\* the value is num / 10^places.  ValueError is [ok |-> FALSE].  Signs,
\* exponents, underscores, "inf" and "nan" are not among the inputs drawn.
PyFloat(s) ==
    LET dots == {i \in 1..Len(s) : s[i] = "."}
        digits == SelectSeq(s, IsDigit)
        dot == CHOOSE i \in dots : TRUE
    IN  IF \/ Cardinality(dots) > 1
           \/ digits = <<>>
           \/ Len(digits) + Cardinality(dots) # Len(s)
        THEN [ok |-> FALSE, num |-> <<>>, places |-> 0]
        ELSE [ok |-> TRUE, num |-> BigFromDigits(digits),
              places |-> IF dots = {} THEN 0 ELSE Len(s) - dot]

\* list.index(unit): 0-based position, -1 for ValueError
UnitIndex(unit) ==
    IF \E i \in 1..Len(Units) : Units[i] = unit
    THEN (CHOOSE i \in 1..Len(Units) : Units[i] = unit) - 1
    ELSE -1

NoBytes == [ok |-> FALSE, val |-> <<>>]

\* a variant that rounds half up instead of truncating
formatted_size_to_bytes_rounding(s) ==
    LET parts == PySplitWhitespace(s)
        size == PyFloat(parts[1])
        unit_index == UnitIndex(parts[2])
        doubled == TruncDouble(BigMulSmall(BigShiftLeft(size.num, unit_index), 2),
                               10 ^ size.places)
    IN  IF Len(parts) # 2 THEN NoBytes
        ELSE IF ~size.ok THEN NoBytes
        ELSE IF unit_index < 0 THEN NoBytes
        ELSE [ok |-> TRUE, val |-> BigDivRem(BigAdd(doubled, <<1>>), 2).q]

\* size, unit = formatted_size.split(): ValueError unless two pieces;
\* int(float(size) * 1024 ** unit_index): scaling a double by a power of two
\* is exact, so the product is the double nearest to num * 1024^e / 10^places
formatted_size_to_bytes(s) ==
    LET parts == PySplitWhitespace(s)
        size == PyFloat(parts[1])
        unit_index == UnitIndex(parts[2])
    IN  IF Len(parts) # 2 THEN NoBytes
        ELSE IF ~size.ok THEN NoBytes
        ELSE IF unit_index < 0 THEN NoBytes
        ELSE [ok |-> TRUE,
              val |-> TruncDouble(BigShiftLeft(size.num, unit_index),
                                  10 ^ size.places)]

---------------------------------------------------------------------------
(* file_utils.py: parse_text_block_into_song *)

Newline == <<"\n">>
BySep == <<" ", "b", "y", " ">>
BarSep == <<" ", "|", " ">>

MaxLicenseLines == 3

\* IndexError / no record
NoSong ==
    [ok |-> FALSE, song_name |-> <<>>, artist_name |-> <<>>,
     artist_link |-> <<>>, licenses |-> <<>>]

\* lines[1:4]: the slice is clipped to the list
LicenseSlice(lines) == SubSeq(lines, 2, IF Len(lines) < 1 + MaxLicenseLines
                                        THEN Len(lines) ELSE 1 + MaxLicenseLines)

StripEach(lines) == [k \in 1..Len(lines) |-> PyStrip(lines[k])]

\* a slip that defaults a missing artist or link to "" instead of raising
parse_text_block_into_song_defaulting(t) ==
    LET lines == PySplit(PyStrip(t), Newline)
        song_info == PySplit(lines[1], BySep)
        artist_info == IF Len(song_info) < 2 THEN <<<<>>>>
                       ELSE PySplit(song_info[2], BarSep)
    IN  [ok |-> TRUE,
         song_name |-> PyStrip(song_info[1]),
         artist_name |-> PyStrip(artist_info[1]),
         artist_link |-> IF Len(artist_info) < 2 THEN <<>>
                         ELSE PyStrip(artist_info[2]),
         licenses |-> StripEach(LicenseSlice(lines))]

\* a slip that drops blank license lines
parse_text_block_into_song_filtering(t) ==
    LET lines == PySplit(PyStrip(t), Newline)
        song_info == PySplit(lines[1], BySep)
        artist_info == PySplit(song_info[2], BarSep)
    IN  IF Len(song_info) < 2 THEN NoSong
        ELSE IF Len(artist_info) < 2 THEN NoSong
        ELSE [ok |-> TRUE,
              song_name |-> PyStrip(song_info[1]),
              artist_name |-> PyStrip(artist_info[1]),
              artist_link |-> PyStrip(artist_info[2]),
              licenses |-> SelectSeq(StripEach(LicenseSlice(lines)),
                                     LAMBDA l : l # <<>>)]

\* song_info[1] and artist_info[1] raise IndexError when the split found no
\* separator
parse_text_block_into_song(t) ==
    LET lines == PySplit(PyStrip(t), Newline)
        song_info == PySplit(lines[1], BySep)
        artist_info == PySplit(song_info[2], BarSep)
    IN  IF Len(song_info) < 2 THEN NoSong
        ELSE IF Len(artist_info) < 2 THEN NoSong
        ELSE [ok |-> TRUE,
              song_name |-> PyStrip(song_info[1]),
              artist_name |-> PyStrip(artist_info[1]),
              artist_link |-> PyStrip(artist_info[2]),
              licenses |-> StripEach(LicenseSlice(lines))]

---------------------------------------------------------------------------
(* file_utils.py: get_unique_file_name, export_audio *)

\* str.rfind(c): position of the last c, 0 when there is none
LastIndex(s, c) ==
    IF \E i \in 1..Len(s) : s[i] = c
    THEN CHOOSE i \in 1..Len(s) : s[i] = c /\ \A j \in (i + 1)..Len(s) : s[j] # c
    ELSE 0

\* os.path.splitext: cut at the last "." of the last path component, unless
\* that component has only leading dots before it
SplitExt(path) ==
    LET sepIndex == LastIndex(path, "/")
        dotIndex == LastIndex(path, ".")
    IN  IF /\ dotIndex > sepIndex
           /\ \E i \in (sepIndex + 1)..(dotIndex - 1) : path[i] # "."
        THEN <<SubSeq(path, 1, dotIndex - 1), SubSeq(path, dotIndex, Len(path))>>
        ELSE <<path, <<>> >>

\* f"{base_name} ({counter}){extension}"
NumberedPath(base, n, ext) ==
    base \o <<" ", "(">> \o IntToStr(n) \o <<")">> \o ext

FirstCounter == 1

---------------------------------------------------------------------------
(* state machines *)

NoResult == [ok |-> FALSE, val |-> 0]

Procs == {1, 2}

PathLocalsInit ==
    /\ base_name = [p \in Procs |-> <<>>]
    /\ extension = [p \in Procs |-> <<>>]
    /\ unique_path = [p \in Procs |-> <<>>]
    /\ counter = [p \in Procs |-> 0]
    /\ now = 0
    /\ returnedAt = [p \in Procs |-> 0]
    /\ exportedAt = [p \in Procs |-> 0]

IdleTime ==
    /\ tpc = "idle"
    /\ seconds = 0
    /\ formatted_time = <<>>
    /\ total_seconds = NoResult

IdleSize ==
    /\ zpc = "idle"
    /\ file_size_bytes = <<>>
    /\ formatted_size = <<>>
    /\ bytes_size = NoBytes

IdleSong ==
    /\ gpc = "idle"
    /\ text = <<>>
    /\ song = NoSong

IdlePath ==
    /\ fs = {}
    /\ pc = [p \in Procs |-> "idle"]
    /\ file_path = [p \in Procs |-> <<>>]
    /\ PathLocalsInit

(* the duration helpers *)

MaxSeconds == 7300
MaxFields == 4

\* hour counts of one, two, three and four digits
LongHours == {9, 10, 99, 100, 101, 123, 1000}
Remainders == {0, 1, 59, 60, 61, 599, 600, 3599}

SecondsInputs ==
    (0..MaxSeconds)
        \cup {h * SecondsPerHour + r : h \in LongHours, r \in Remainders}

FieldInputs ==
    { <<>>, <<"0", "7">>, <<"1", "2", "3">>, <<"x">>, <<"-", "3">>,
      <<" ", "4", " ">>, <<"1", "_", "0">>, <<"1", "_", "_", "0">>,
      <<"_", "1">> }

InitTime ==
    /\ IdleSize
    /\ IdleSong
    /\ IdlePath
    /\ total_seconds = NoResult
    /\ \/ /\ tpc = "int"
          /\ seconds \in SecondsInputs
          /\ formatted_time = <<>>
       \/ /\ tpc = "str"
          /\ seconds = 0
          /\ \E n \in 1..MaxFields : \E l \in [1..n -> FieldInputs] :
                formatted_time = Join(l, Colon)

FormatTime ==
    /\ tpc = "int"
    /\ formatted_time' = seconds_to_formatted_time(seconds)
    /\ tpc' = "fmt"
    /\ UNCHANGED <<seconds, total_seconds, sizeVars, songVars, pathVars>>

ParseTime ==
    /\ tpc \in {"fmt", "str"}
    /\ total_seconds' = formatted_time_to_seconds(formatted_time)
    /\ tpc' = IF tpc = "fmt" THEN "roundtrip" ELSE "parsed"
    /\ UNCHANGED <<seconds, formatted_time, sizeVars, songVars, pathVars>>

NextTime == FormatTime \/ ParseTime

SpecTime == InitTime /\ [][NextTime]_vars

(* the size helpers *)

\* limbs of the byte counts drawn: up to five limbs, or a sixth limb below 8 on
\* top, so that every count is below 2^53
LimbInputs == {0, 1, 6, 128, 256, 512, 1023}
SixthLimbInputs == {1, 7}

MagnitudeInputs ==
    { <<"0">>, <<"1">>, <<"1", ".", "5">>, <<"0", ".", "0", "3">>,
      <<"2", ".", "5", "0">>, <<"1", "0", "2", "3", ".", "9", "9">>,
      <<"0", ".", "7">>, <<".", "5">>, <<"7", ".">>, <<"0", ".", "0", "0", "1">>,
      <<"x">>, <<"1", ".", "2", ".", "3">>, <<".">> }

UnitInputs == {Units[i] : i \in 1..Len(Units)} \cup {<<"P", "B">>, <<"k", "b">>}

GapInputs == {<<>>, <<" ">>, <<" ", " ">>, <<" ">> \o Units[1] \o <<" ">>}

InitSize ==
    /\ IdleTime
    /\ IdleSong
    /\ IdlePath
    /\ bytes_size = NoBytes
    /\ \/ /\ zpc = "int"
          /\ formatted_size = <<>>
          /\ \/ \E n \in 0..Len(Units) : \E l \in [1..n -> LimbInputs] :
                    file_size_bytes = BigNorm(l)
             \/ \E l \in [1..Len(Units) -> LimbInputs] :
                \E top \in SixthLimbInputs :
                    file_size_bytes = l \o <<top>>
       \/ /\ zpc = "str"
          /\ file_size_bytes = <<>>
          /\ \E m \in MagnitudeInputs : \E g \in GapInputs : \E u \in UnitInputs :
                formatted_size = m \o g \o u

FormatSize ==
    /\ zpc = "int"
    /\ formatted_size' = bytes_to_formatted_size(file_size_bytes)
    /\ zpc' = "fmt"
    /\ UNCHANGED <<file_size_bytes, bytes_size, timeVars, songVars, pathVars>>

ParseSize ==
    /\ zpc \in {"fmt", "str"}
    /\ bytes_size' = formatted_size_to_bytes(formatted_size)
    /\ zpc' = IF zpc = "fmt" THEN "roundtrip" ELSE "parsed"
    /\ UNCHANGED <<file_size_bytes, formatted_size, timeVars, songVars, pathVars>>

NextSize == FormatSize \/ ParseSize

SpecSize == InitSize /\ [][NextSize]_vars

(* the unique-path resolver and the exporters that call it *)

MaxCopies == 2

PathA == <<"a", ".", "m", "p", "3">>
PathB == <<"d", ".", "x", "/", "b">>

Candidates == {PathA, PathB}

ExistingPool ==
    Candidates
        \cup {NumberedPath(SplitExt(c)[1], k, SplitExt(c)[2]) :
                  c \in Candidates, k \in 1..MaxCopies}

\* a slip that numbers the copies from 0
Enter_counter_from_zero(p) ==
    /\ pc[p] = "call"
    /\ base_name' = [base_name EXCEPT ![p] = SplitExt(file_path[p])[1]]
    /\ extension' = [extension EXCEPT ![p] = SplitExt(file_path[p])[2]]
    /\ unique_path' = [unique_path EXCEPT ![p] = file_path[p]]
    /\ counter' = [counter EXCEPT ![p] = 0]
    /\ pc' = [pc EXCEPT ![p] = "loop"]
    /\ UNCHANGED <<fs, file_path, now, returnedAt, exportedAt, timeVars, sizeVars,
                   songVars>>

\* file_utils.py lines 108-110
Enter(p) ==
    /\ pc[p] = "call"
    /\ base_name' = [base_name EXCEPT ![p] = SplitExt(file_path[p])[1]]
    /\ extension' = [extension EXCEPT ![p] = SplitExt(file_path[p])[2]]
    /\ unique_path' = [unique_path EXCEPT ![p] = file_path[p]]
    /\ counter' = [counter EXCEPT ![p] = FirstCounter]
    /\ pc' = [pc EXCEPT ![p] = "loop"]
    /\ UNCHANGED <<fs, file_path, now, returnedAt, exportedAt, timeVars, sizeVars,
                   songVars>>

\* file_utils.py lines 112-114: the path under test exists
Rename(p) ==
    /\ pc[p] = "loop"
    /\ unique_path[p] \in fs
    /\ unique_path' = [unique_path EXCEPT
                           ![p] = NumberedPath(base_name[p], counter[p], extension[p])]
    /\ counter' = [counter EXCEPT ![p] = counter[p] + 1]
    /\ UNCHANGED <<fs, pc, file_path, base_name, extension, now, returnedAt,
                   exportedAt, timeVars, sizeVars, songVars>>

\* a slip that returns the path under test without testing it
Return_unchecked(p) ==
    /\ pc[p] = "loop"
    /\ pc' = [pc EXCEPT ![p] = "return"]
    /\ now' = now + 1
    /\ returnedAt' = [returnedAt EXCEPT ![p] = now + 1]
    /\ UNCHANGED <<fs, file_path, base_name, extension, unique_path, counter,
                   exportedAt, timeVars, sizeVars, songVars>>

\* file_utils.py lines 112 and 116: the path under test does not exist
Return(p) ==
    /\ pc[p] = "loop"
    /\ unique_path[p] \notin fs
    /\ pc' = [pc EXCEPT ![p] = "return"]
    /\ now' = now + 1
    /\ returnedAt' = [returnedAt EXCEPT ![p] = now + 1]
    /\ UNCHANGED <<fs, file_path, base_name, extension, unique_path, counter,
                   exportedAt, timeVars, sizeVars, songVars>>

\* export_audio: audio.export creates (or overwrites) the file at the path
\* get_unique_file_name returned
Export(p) ==
    /\ pc[p] = "return"
    /\ fs' = fs \cup {unique_path[p]}
    /\ pc' = [pc EXCEPT ![p] = "done"]
    /\ now' = now + 1
    /\ exportedAt' = [exportedAt EXCEPT ![p] = now + 1]
    /\ UNCHANGED <<file_path, base_name, extension, unique_path, counter,
                   returnedAt, timeVars, sizeVars, songVars>>

\* one call of get_unique_file_name on a filesystem nobody else touches
InitUnique ==
    /\ IdleTime
    /\ IdleSize
    /\ IdleSong
    /\ fs \in SUBSET ExistingPool
    /\ \E c \in Candidates :
          /\ file_path = [p \in Procs |-> IF p = 1 THEN c ELSE <<>>]
          /\ pc = [p \in Procs |-> IF p = 1 THEN "call" ELSE "idle"]
    /\ PathLocalsInit

NextUnique == \E p \in Procs : Enter(p) \/ Rename(p) \/ Return(p)

SpecUnique == InitUnique /\ [][NextUnique]_vars

\* two exporters (or an exporter and another process) running export_audio
InitExport ==
    /\ IdleTime
    /\ IdleSize
    /\ IdleSong
    /\ fs \in SUBSET ExistingPool
    /\ file_path \in [Procs -> Candidates]
    /\ pc = [p \in Procs |-> "call"]
    /\ PathLocalsInit

NextExport == \E p \in Procs : Enter(p) \/ Rename(p) \/ Return(p) \/ Export(p)

SpecExport == InitExport /\ [][NextExport]_vars

(* the song parser *)

MaxPieces == 6
MaxTailLines == 4

HeaderPieces == {<<"A">>, BySep, BarSep, <<" ">>}

WellFormedHeader == <<"S">> \o BySep \o <<"A">> \o BarSep \o <<"U">>

TailLineInputs == {<<>>, <<"L">>, <<" ", "M", " ">>}

ShortTails == {<<>>, Newline \o <<"L">>}

InitSong ==
    /\ IdleTime
    /\ IdleSize
    /\ IdlePath
    /\ gpc = "text"
    /\ \/ \E n \in 0..MaxPieces : \E h \in [1..n -> HeaderPieces] :
              \E t \in ShortTails : text = Concat(h) \o t
       \/ \E n \in 0..MaxTailLines : \E ls \in [1..n -> TailLineInputs] :
              text = WellFormedHeader
                         \o Concat([k \in 1..n |-> Newline \o ls[k]])
    /\ song = NoSong

ParseSong ==
    /\ gpc = "text"
    /\ song' = parse_text_block_into_song(text)
    /\ gpc' = "parsed"
    /\ UNCHANGED <<text, timeVars, sizeVars, pathVars>>

NextSong == ParseSong

SpecSong == InitSong /\ [][NextSong]_vars

(* the whole program: any one of the helpers is called *)

Init == InitTime \/ InitSize \/ InitSong \/ InitUnique \/ InitExport

Next == NextTime \/ NextSize \/ NextSong \/ NextExport

Spec == Init /\ [][Next]_vars

---------------------------------------------------------------------------
\* C1: every non-negative number of seconds that is formatted and parsed
\* back comes out unchanged, also when the hours need more than two digits.
C1_RoundTrip ==
    tpc = "roundtrip" => total_seconds = [ok |-> TRUE, val |-> seconds]

C1_Witness ==
    /\ tpc = "roundtrip"
    /\ seconds = 123 * SecondsPerHour + 61
    /\ formatted_time = <<"1", "2", "3", ":", "0", "1", ":", "0", "1">>
    /\ total_seconds.ok

\* the fields of a string with exactly two ":", read off the colon positions
ColonCount(s) == Cardinality({i \in 1..Len(s) : s[i] = ":"})

FieldsAtColons(s) ==
    LET p == CHOOSE q \in (1..Len(s)) \X (1..Len(s)) :
                 q[1] < q[2] /\ s[q[1]] = ":" /\ s[q[2]] = ":"
    IN  <<SubSeq(s, 1, p[1] - 1), SubSeq(s, p[1] + 1, p[2] - 1),
          SubSeq(s, p[2] + 1, Len(s))>>

Unsigned(t) == IF t # <<>> /\ t[1] \in {"+", "-"} THEN Tail(t) ELSE t

\* an optional sign followed by one or more decimal digits, nothing else
IsBase10Integer(f) ==
    /\ Unsigned(f) # <<>>
    /\ \A i \in 1..Len(Unsigned(f)) : IsDigit(Unsigned(f)[i])

\* the same, allowing whitespace around it and single underscores between
\* two digits
IsIntLiteral(f) ==
    LET b == Unsigned(PyStrip(f))
    IN  /\ b # <<>>
        /\ \A i \in 1..Len(b) :
              \/ IsDigit(b[i])
              \/ /\ b[i] = "_"
                 /\ 1 < i /\ i < Len(b)
                 /\ IsDigit(b[i - 1]) /\ IsDigit(b[i + 1])

LiteralValue(f) ==
    LET t == PyStrip(f)
    IN  IF t[1] = "-" THEN 0 - DigitsValue(Tail(t))
        ELSE DigitsValue(Unsigned(t))

FieldsTotal(fields) ==
    LiteralValue(fields[1]) * SecondsPerHour
        + LiteralValue(fields[2]) * SecondsPerMinute + LiteralValue(fields[3])

TimeParsed == tpc \in {"parsed", "roundtrip"}

\* C9 (as amended): parsing fails for every string without exactly two ":"
\* and for every string with a field that is not an integer literal as int()
\* reads it (optional surrounding whitespace, optional sign, decimal digits
\* with single underscores allowed between digits); otherwise it returns
\* hours*3600 + minutes*60 + seconds.
C9_ParseTimeErrors ==
    TimeParsed =>
        IF /\ ColonCount(formatted_time) = 2
           /\ \A i \in 1..3 : IsIntLiteral(FieldsAtColons(formatted_time)[i])
        THEN total_seconds =
                 [ok |-> TRUE, val |-> FieldsTotal(FieldsAtColons(formatted_time))]
        ELSE ~total_seconds.ok

\* C9 (as stated): parsing fails whenever the fields are not exactly three or
\* one of them is not a base-10 integer.
C9_AsStated ==
    TimeParsed =>
        (   \/ ColonCount(formatted_time) # 2
            \/ \E i \in 1..3 : ~IsBase10Integer(FieldsAtColons(formatted_time)[i])
         => ~total_seconds.ok)

C9_Witness ==
    /\ tpc = "parsed"
    /\ formatted_time = <<"x", ":", "0", "7", ":", "1", "2", "3">>
    /\ ~total_seconds.ok

(* the header line and the lines after it, read off the character positions *)

Trimmed == PyStrip(text)

\* line breaks of the trimmed block, with a sentinel before and after
Breaks == {0, Len(Trimmed) + 1} \cup {i \in 1..Len(Trimmed) : Trimmed[i] = "\n"}

KthBreak(k) == CHOOSE p \in Breaks : Cardinality({q \in Breaks : q < p}) = k - 1

\* line k of the trimmed block, k = 1 for the header
Line(k) == SubSeq(Trimmed, KthBreak(k) + 1, KthBreak(k + 1) - 1)

LinesAfterHeader == Cardinality(Breaks) - 2

HeaderLine == Line(1)

AfterBy == SubSeq(HeaderLine, FirstIndex(HeaderLine, BySep) + Len(BySep),
                  Len(HeaderLine))

HasBothSeparators == Contains(HeaderLine, BySep) /\ Contains(AfterBy, BarSep)

\* C2: a header with " by " and, after the first " by ", " | " is cut at
\* the first occurrence of each separator only: the song name is the trimmed
\* text before the first " by ", the artist the trimmed text up to the first
\* following " | ", and the link the trimmed rest of the line.
C2_SplitAtFirstOnly ==
    gpc = "parsed" /\ HasBothSeparators =>
        /\ song.ok
        /\ song.song_name =
               PyStrip(SubSeq(HeaderLine, 1, FirstIndex(HeaderLine, BySep) - 1))
        /\ song.artist_name =
               PyStrip(SubSeq(AfterBy, 1, FirstIndex(AfterBy, BarSep) - 1))
        /\ song.artist_link =
               PyStrip(SubSeq(AfterBy, FirstIndex(AfterBy, BarSep) + Len(BarSep),
                              Len(AfterBy)))

\* C3: a block whose header lacks " by ", or lacks " | " after the first
\* " by ", is rejected: the call raises and yields no record at all.
C3_MalformedHeaderFails ==
    gpc = "parsed" /\ ~HasBothSeparators => song = NoSong

C3_Witness ==
    /\ gpc = "parsed"
    /\ text = <<"A">> \o BySep \o <<"A">> \o Newline \o <<"L">>
    /\ song = NoSong

\* C4: the licenses of a parsed block are the first min(n, 3) of the n lines
\* after the header, each trimmed, in order; a fourth line is left out and a
\* blank line among the first three stays as an empty entry.
C4_Licenses ==
    gpc = "parsed" /\ song.ok =>
        /\ Len(song.licenses) =
               (IF LinesAfterHeader < 3 THEN LinesAfterHeader ELSE 3)
        /\ \A k \in 1..Len(song.licenses) : song.licenses[k] = PyStrip(Line(k + 1))

C4_Witness ==
    /\ gpc = "parsed"
    /\ song.ok
    /\ LinesAfterHeader = 4
    /\ song.licenses = << <<"L">>, <<>>, <<"M">> >>

\* the numbered names of exporter p's candidate
Numbered(p, k) == NumberedPath(base_name[p], k, extension[p])

\* C5: get_unique_file_name returns a path that does not exist: the
\* candidate itself when it is free, otherwise "<base> (k)<extension>" for the
\* smallest k >= 1 whose path is free (a.mp3 and a (1).mp3 taken give
\* a (2).mp3); the loop runs at most once per existing path, so it ends.
C5_UniquePath ==
    /\ counter[1] <= Cardinality(fs) + 1
    /\ pc[1] = "return" =>
          /\ unique_path[1] \notin fs
          /\ file_path[1] \notin fs => unique_path[1] = file_path[1]
          /\ file_path[1] \in fs =>
                \E k \in 1..(Cardinality(fs) + 1) :
                    /\ unique_path[1] = Numbered(1, k)
                    /\ \A j \in 1..(k - 1) : Numbered(1, j) \in fs
          /\ (/\ file_path[1] = PathA
              /\ {PathA, <<"a", " ", "(", "1", ")", ".", "m", "p", "3">>} \subseteq fs
              /\ <<"a", " ", "(", "2", ")", ".", "m", "p", "3">> \notin fs)
                => unique_path[1] = <<"a", " ", "(", "2", ")", ".", "m", "p", "3">>

C5_Witness ==
    /\ pc[1] = "return"
    /\ file_path[1] = PathA
    /\ fs = {PathA, <<"a", " ", "(", "1", ")", ".", "m", "p", "3">>}
    /\ unique_path[1] = <<"a", " ", "(", "2", ")", ".", "m", "p", "3">>

\* C10: the existence check and the caller's file creation are separate
\* steps.  An exporter whose check ends after another exporter has created its
\* file never gets that file's path, so exports that do not interleave get
\* distinct paths; two exporters that both finish the check before either
\* creates its file can hold the same path (the witness).
C10_SequentialExportsDistinct ==
    \A p \in Procs : \A q \in Procs \ {p} :
        (/\ exportedAt[p] > 0
         /\ returnedAt[q] > exportedAt[p])
            => unique_path[q] # unique_path[p]

C10_Witness ==
    /\ pc = [p \in Procs |-> "done"]
    /\ unique_path[1] = unique_path[2]
    /\ returnedAt[1] < exportedAt[2]
    /\ returnedAt[2] < exportedAt[1]

(* a size string "<magnitude> <unit>", read off the character positions *)

Pow1024(e) == BigShiftLeft(<<1>>, e)

Pow10(d) == IF d = 0 THEN 1 ELSE IF d = 1 THEN 10 ELSE IF d = 2 THEN 100 ELSE 1000

SpaceAt == CHOOSE i \in 1..Len(formatted_size) : formatted_size[i] = " "

MagnitudePart == SubSeq(formatted_size, 1, SpaceAt - 1)

UnitPart == SubSeq(formatted_size, SpaceAt + 1, Len(formatted_size))

DotsOf(m) == {i \in 1..Len(m) : m[i] = "."}

\* digits with at most one "." among them
IsDecimalNumeral(m) ==
    /\ Cardinality(DotsOf(m)) <= 1
    /\ \E i \in 1..Len(m) : IsDigit(m[i])
    /\ \A i \in 1..Len(m) : IsDigit(m[i]) \/ m[i] = "."

\* the number of digits after the "."
DecimalsOf(m) ==
    IF DotsOf(m) = {} THEN 0 ELSE Len(m) - (CHOOSE i \in DotsOf(m) : TRUE)

\* the numeral with its "." removed: magnitude * 10^DecimalsOf
ScaledMagnitude(m) == BigFromDigits(SelectSeq(m, IsDigit))

IsSizeString ==
    /\ Cardinality({i \in 1..Len(formatted_size) : formatted_size[i] = " "}) = 1
    /\ IsDecimalNumeral(MagnitudePart)
    /\ DecimalsOf(MagnitudePart) <= 3
    /\ \E i \in 1..Len(Units) : Units[i] = UnitPart

UnitExponent == (CHOOSE i \in 1..Len(Units) : Units[i] = UnitPart) - 1

\* magnitude * 1024^exponent, times 10^decimals
ScaledProduct == BigShiftLeft(ScaledMagnitude(MagnitudePart), UnitExponent)

TenPower == Pow10(DecimalsOf(MagnitudePart))

SizeParsed == zpc \in {"parsed", "roundtrip"}

\* the product is small enough that the double nearest to the magnitude,
\* scaled by 1024^e, has the integer part of the exact product: its error is
\* under 2^46 / 2^53 = 1/128, and a product with at most three decimals that
\* is not an integer lies at least 1/125 from the nearest integer
WithinExactRange ==
    BigCmp(ScaledProduct, BigMulSmall(BigMulPow2(<<1>>, 46), TenPower)) < 0

SizeFormatted == zpc \in {"fmt", "roundtrip"}

\* the printed size has the shape <digits>.<two digits> <unit>
HasTwoDecimalShape ==
    /\ IsSizeString
    /\ DecimalsOf(MagnitudePart) = 2
    /\ MagnitudePart[1] # "."
    /\ (MagnitudePart[1] = "0" => MagnitudePart[2] = ".")

\* C7: bytes_to_formatted_size picks unit B below 1024 and otherwise the unit
\* at index min(4, floor(log_1024 b)), so the scaled value b / 1024^e is below
\* 1024 for every unit under TB; it prints that value rounded to exactly two
\* decimals, one space and the unit (0 -> "0.00 B", 1536 -> "1.50 KB",
\* 1024^4 -> "1.00 TB").
C7_FormatSize ==
    SizeFormatted =>
        /\ HasTwoDecimalShape
        /\ UnitExponent = 0 \/ BigCmp(file_size_bytes, Pow1024(UnitExponent)) >= 0
        /\ \/ UnitExponent = Len(Units) - 1
           \/ BigCmp(file_size_bytes, Pow1024(UnitExponent + 1)) < 0
        /\ BigCmp(BigMulSmall(ScaledProduct, 2),
                  BigAdd(BigMulSmall(file_size_bytes, 200), Pow1024(UnitExponent))) <= 0
        /\ BigCmp(BigMulSmall(file_size_bytes, 200),
                  BigAdd(BigMulSmall(ScaledProduct, 2), Pow1024(UnitExponent))) <= 0
        /\ file_size_bytes = <<>> =>
               formatted_size = <<"0", ".", "0", "0", " ", "B">>
        /\ file_size_bytes = BigFromInt(1536) =>
               formatted_size = <<"1", ".", "5", "0", " ", "K", "B">>
        /\ file_size_bytes = Pow1024(4) =>
               formatted_size = <<"1", ".", "0", "0", " ", "T", "B">>

C7_Witness ==
    /\ zpc = "fmt"
    /\ file_size_bytes = Pow1024(4)
    /\ formatted_size = <<"1", ".", "0", "0", " ", "T", "B">>

\* b = m * 1024^e for an m with at most two decimals: 100 * b is a multiple
\* of 1024^e
TwoDecimalMultiple(b, e) == BigLow(BigMulSmall(b, 100), e) = <<>>

WithinOneByte(a, b) ==
    /\ BigCmp(a, BigAdd(b, <<1>>)) <= 0
    /\ BigCmp(b, BigAdd(a, <<1>>)) <= 0

\* C8 (as amended): a byte count b = m * 1024^e with e in 0..4, m exact in
\* two decimals and m < 1024 unless e = 4 (the magnitude the formatter can
\* display for unit e) comes back from format-then-parse within 1 byte of b.
C8_SizeRoundTrip ==
    (/\ zpc = "roundtrip"
     /\ \E e \in 0..(Len(Units) - 1) :
           /\ TwoDecimalMultiple(file_size_bytes, e)
           /\ \/ e = Len(Units) - 1
              \/ BigCmp(file_size_bytes, Pow1024(e + 1)) < 0)
        => /\ bytes_size.ok
           /\ WithinOneByte(bytes_size.val, file_size_bytes)

\* C8 (as stated): any m exact in two decimals, any e in 0..4.
C8_AsStated ==
    (/\ zpc = "roundtrip"
     /\ \E e \in 0..(Len(Units) - 1) : TwoDecimalMultiple(file_size_bytes, e))
        => /\ bytes_size.ok
           /\ WithinOneByte(bytes_size.val, file_size_bytes)

C8_Witness ==
    /\ zpc = "roundtrip"
    /\ file_size_bytes = <<0, 0, 256, 1>>
    /\ formatted_size = <<"1", ".", "2", "5", " ", "G", "B">>
    /\ bytes_size = [ok |-> TRUE, val |-> <<0, 0, 256, 1>>]

===========================================================================
